---- MODULE Spec2Model ----
(***************************************************************************)
(* Model of gbasis/eval_deriv.py: the input validation and delegation of   *)
(* EvalDeriv.construct_array_contraction and the dispatch of               *)
(* evaluate_deriv_basis.                                                   *)
(*                                                                         *)
(* A numpy array is a record with its shape (a sequence, so the Python     *)
(* index shape[1] is shape[2] here), its dtype and, for the derivative     *)
(* orders, its element values.  Element values are kept in half units      *)
(* (the stored number is twice the value) so that a floating point array   *)
(* can hold the non-integral values -0.5, 0.5, ... next to the integral    *)
(* ones; an array of an integer dtype only holds even stored numbers.      *)
(***************************************************************************)
EXTENDS Integers, Sequences, FiniteSets, TLC

VARIABLES
    np_int,            \* the dtype the Python type int stands for on this platform
    arg_contractions,  \* the caller's objects: the shell, ...
    arg_coords,        \* ... the points, ...
    arg_orders,        \* ... and the derivative orders
    last,              \* the last call of construct_array_contraction
    prev,              \* the call of construct_array_contraction before it
    arg_basis,         \* the caller's basis, ...
    arg_transform,     \* ... transformation matrix ...
    arg_coord_type,    \* ... and coordinate type(s)
    basis_result       \* the last call of evaluate_deriv_basis

vars == <<np_int, arg_contractions, arg_coords, arg_orders, last, prev,
          arg_basis, arg_transform, arg_coord_type, basis_result>>

(***************************************************************************)
(* Bounds of the model.                                                    *)
(***************************************************************************)
MaxOrder == 1
MaxPoints == 2
MaxAngmom == 2
MaxSeg == 2
MaxShells == 2
MaxOrbs == 2

(***************************************************************************)
(* dtypes of numpy arrays.                                                 *)
(***************************************************************************)
SignedDtypes == {"int32", "int64"}
UnsignedDtypes == {"uint64"}
IntegralDtypes == SignedDtypes \cup UnsignedDtypes
FloatDtypes == {"float64"}

\* What the Python type `int` converts to as a dtype: the platform's default
\* integer, 64 bits wide on Linux and macOS, 32 bits wide on Windows with
\* numpy 1.x.
PlatformInts == {"int32", "int64"}

RECURSIVE SumSeq(_)
SumSeq(s) == IF s = <<>> THEN 0 ELSE Head(s) + SumSeq(Tail(s))

(***************************************************************************)
(* GeneralizedContractionShell: a shell with P primitives, M segmented     *)
(* contractions and angular momentum L exposes its exponents (P), its      *)
(* coefficients (P x M), the L_cart Cartesian component triples, its       *)
(* center and the normalization constants of its primitives.               *)
(***************************************************************************)
L_cart(L) == ((L + 1) * (L + 2)) \div 2

L_sph(L) == 2 * L + 1

Attr(name, owner, shape) == [name |-> name, owner |-> owner, shape |-> shape]

GeneralizedContractionShell(id, L, M, P) ==
    [isShell |-> TRUE, id |-> id, angmom |-> L,
     exps |-> Attr("exps", id, <<P>>),
     coeffs |-> Attr("coeffs", id, <<P, M>>),
     angmom_components_cart |-> Attr("angmom_components_cart", id, <<L_cart(L), 3>>),
     coord |-> Attr("coord", id, <<3>>),
     norm_prim_cart |-> Attr("norm_prim_cart", id, <<P, L_cart(L)>>)]

\* An object that is not a shell (None, a tuple, ...): it has no attributes.
NoAttr == Attr("none", 0, <<>>)

NotAShell ==
    [isShell |-> FALSE, id |-> 0, angmom |-> 0,
     exps |-> NoAttr, coeffs |-> NoAttr, angmom_components_cart |-> NoAttr,
     coord |-> NoAttr, norm_prim_cart |-> NoAttr]

\* One shell per angular momentum, with 1..MaxSeg segmented contractions.
Shells == {GeneralizedContractionShell(L + 1, L, (L % MaxSeg) + 1, (L % MaxSeg) + 1) :
           L \in 0..MaxAngmom}

ContractionObjects == {GeneralizedContractionShell(1, 0, 1, 1),
                       GeneralizedContractionShell(2, 1, 2, 2), NotAShell}

(***************************************************************************)
(* The arrays a caller can pass.                                           *)
(***************************************************************************)
Array(shape) == [isArray |-> TRUE, shape |-> shape]

\* A nested list of the same shape: not a numpy array.
List(shape) == [isArray |-> FALSE, shape |-> shape]

GoodCoords == {Array(<<n, 3>>) : n \in 0..MaxPoints}

BadCoords == {Array(<<MaxPoints, 2>>), Array(<<3>>), Array(<<1, 3, 1>>), List(<<1, 3>>)}

CoordsObjects == GoodCoords \cup BadCoords

OrdersArray(shape, dtype, vals) ==
    [isArray |-> TRUE, shape |-> shape, dtype |-> dtype, vals |-> vals]

\* The stored (doubled) element values an array of the dtype can hold.
Values(dtype) ==
    IF dtype \in SignedDtypes THEN {2 * k : k \in (-1)..MaxOrder}
    ELSE IF dtype \in UnsignedDtypes THEN {2 * k : k \in 0..MaxOrder}
    ELSE {-1, 0, 1, 2 * MaxOrder}

Triples(S) == {<<a, b, c>> : a \in S, b \in S, c \in S}

OrdersTriples ==
    UNION {{OrdersArray(<<3>>, d, v) : v \in Triples(Values(d))} :
           d \in IntegralDtypes \cup FloatDtypes}

\* Arrays of another shape than (3,), and a list of three integers.
BadShapeOrders ==
    UNION {{OrdersArray(<<2>>, d, <<0, 0>>), OrdersArray(<<4>>, d, <<0, 2, 0, 0>>),
            OrdersArray(<<1, 3>>, d, <<0, 0, 0>>)} : d \in PlatformInts}
    \cup {OrdersArray(<<3, 1>>, "int64", <<-2, 0, 0>>),
          OrdersArray(<<2>>, "float64", <<-1, 0>>),
          OrdersArray(<<>>, "float64", <<0>>),
          [isArray |-> FALSE, shape |-> <<3>>, dtype |-> "int64", vals |-> <<0, 0, 0>>],
          [isArray |-> FALSE, shape |-> <<3>>, dtype |-> "int32", vals |-> <<-2, 0, 0>>]}

OrdersObjects == OrdersTriples \cup BadShapeOrders

ndim(a) == Len(a.shape)

\* a.shape[i] in Python (0-based), 0 where the array has no such axis.
Dim(a, i) == IF i + 1 \in DOMAIN a.shape THEN a.shape[i + 1] ELSE 0

(***************************************************************************)
(* gbasis._deriv.__eval_deriv_contractions: one value per segmented         *)
(* contraction, angular momentum component and point.  The values are the  *)
(* function of the arguments the call record keeps.                        *)
(***************************************************************************)
EvalCall(c, o, center, angmom_comps, alphas, prim_coeffs, norm_prim_cart) ==
    [coords |-> c, orders |-> o, center |-> center, angmom_comps |-> angmom_comps,
     alphas |-> alphas, prim_coeffs |-> prim_coeffs, norm_prim_cart |-> norm_prim_cart]

_eval_deriv_contractions(call) ==
    [shape |-> <<Dim(call.prim_coeffs, 1), Dim(call.angmom_comps, 0), Dim(call.coords, 0)>>,
     of |-> <<call>>]

(***************************************************************************)
(* Outcomes of a call: an array returned or an error raised, with the      *)
(* calls of the evaluator made on the way.                                 *)
(***************************************************************************)
NoOutput == [shape |-> <<>>, of |-> <<>>]

Raise(kind, check) ==
    [raised |-> kind, check |-> check, output |-> NoOutput, calls |-> <<>>]

Return(output, calls) ==
    [raised |-> "none", check |-> "none", output |-> output, calls |-> calls]

(***************************************************************************)
(* The five validations of construct_array_contraction.                    *)
(***************************************************************************)
isinstance_shell(contractions) == contractions.isShell

\* coords_ok without the test of the number of columns
coords_ok_any_columns(coords) == coords.isArray /\ ndim(coords) = 2

coords_ok(coords) == coords.isArray /\ ndim(coords) = 2 /\ Dim(coords, 1) = 3

orders_shape_ok(orders) == orders.isArray /\ orders.shape = <<3>>

\* any_negative looking at the first order only
any_negative_first(orders) == orders.vals # <<>> /\ orders.vals[1] < 0

\* np.any(orders < 0)
any_negative(orders) == \E i \in DOMAIN orders.vals : orders.vals[i] < 0

\* dtype_not_int testing the values, not the dtype: orders != orders.astype(int)
dtype_not_int_by_value(orders) == \E i \in DOMAIN orders.vals : orders.vals[i] % 2 # 0

\* orders.dtype != int
dtype_not_int(orders) == orders.dtype # np_int

(***************************************************************************)
(* Variants of construct_array_contraction with one slip each.             *)
(***************************************************************************)
\* the shape of orders reported as a ValueError
construct_array_contraction_shape_value(contractions, coords, orders) ==
    IF ~contractions.isShell THEN Raise("TypeError", "contractions")
    ELSE IF ~(coords.isArray /\ ndim(coords) = 2 /\ Dim(coords, 1) = 3)
        THEN Raise("TypeError", "coords")
    ELSE IF ~(orders.isArray /\ orders.shape = <<3>>) THEN Raise("ValueError", "orders_shape")
    ELSE IF \E i \in DOMAIN orders.vals : orders.vals[i] < 0 THEN Raise("ValueError", "negative")
    ELSE IF orders.dtype # np_int THEN Raise("ValueError", "dtype")
    ELSE LET call == EvalCall(coords, orders, contractions.coord,
                              contractions.angmom_components_cart, contractions.exps,
                              contractions.coeffs, contractions.norm_prim_cart)
         IN  Return(_eval_deriv_contractions(call), <<call>>)

\* the evaluator called before the dtype of orders is tested
construct_array_contraction_eval_early(contractions, coords, orders) ==
    IF ~contractions.isShell THEN Raise("TypeError", "contractions")
    ELSE IF ~(coords.isArray /\ ndim(coords) = 2 /\ Dim(coords, 1) = 3)
        THEN Raise("TypeError", "coords")
    ELSE IF ~(orders.isArray /\ orders.shape = <<3>>) THEN Raise("TypeError", "orders_shape")
    ELSE IF \E i \in DOMAIN orders.vals : orders.vals[i] < 0 THEN Raise("ValueError", "negative")
    ELSE LET call == EvalCall(coords, orders, contractions.coord,
                              contractions.angmom_components_cart, contractions.exps,
                              contractions.coeffs, contractions.norm_prim_cart)
         IN  IF orders.dtype # np_int
             THEN [Raise("ValueError", "dtype") EXCEPT !.calls = <<call>>]
             ELSE Return(_eval_deriv_contractions(call), <<call>>)

\* the exponents and the coefficients passed in each other's place
construct_array_contraction_swapped(contractions, coords, orders) ==
    IF ~contractions.isShell THEN Raise("TypeError", "contractions")
    ELSE IF ~(coords.isArray /\ ndim(coords) = 2 /\ Dim(coords, 1) = 3)
        THEN Raise("TypeError", "coords")
    ELSE IF ~(orders.isArray /\ orders.shape = <<3>>) THEN Raise("TypeError", "orders_shape")
    ELSE IF \E i \in DOMAIN orders.vals : orders.vals[i] < 0 THEN Raise("ValueError", "negative")
    ELSE IF orders.dtype # np_int THEN Raise("ValueError", "dtype")
    ELSE LET call == EvalCall(coords, orders, contractions.coord,
                              contractions.angmom_components_cart, contractions.coeffs,
                              contractions.exps, contractions.norm_prim_cart)
         IN  Return(_eval_deriv_contractions(call), <<call>>)

\* the dtype of orders tested before their sign
construct_array_contraction_dtype_first(contractions, coords, orders) ==
    IF ~contractions.isShell THEN Raise("TypeError", "contractions")
    ELSE IF ~(coords.isArray /\ ndim(coords) = 2 /\ Dim(coords, 1) = 3)
        THEN Raise("TypeError", "coords")
    ELSE IF ~(orders.isArray /\ orders.shape = <<3>>) THEN Raise("TypeError", "orders_shape")
    ELSE IF orders.dtype # np_int THEN Raise("ValueError", "dtype")
    ELSE IF \E i \in DOMAIN orders.vals : orders.vals[i] < 0 THEN Raise("ValueError", "negative")
    ELSE LET call == EvalCall(coords, orders, contractions.coord,
                              contractions.angmom_components_cart, contractions.exps,
                              contractions.coeffs, contractions.norm_prim_cart)
         IN  Return(_eval_deriv_contractions(call), <<call>>)

(***************************************************************************)
(* EvalDeriv.construct_array_contraction                                   *)
(***************************************************************************)
construct_array_contraction(contractions, coords, orders) ==
    IF ~isinstance_shell(contractions) THEN Raise("TypeError", "contractions")
    ELSE IF ~coords_ok(coords) THEN Raise("TypeError", "coords")
    ELSE IF ~orders_shape_ok(orders) THEN Raise("TypeError", "orders_shape")
    ELSE IF any_negative(orders) THEN Raise("ValueError", "negative")
    ELSE IF dtype_not_int(orders) THEN Raise("ValueError", "dtype")
    ELSE LET alphas == contractions.exps
             prim_coeffs == contractions.coeffs
             angmom_comps == contractions.angmom_components_cart
             center == contractions.coord
             norm_prim_cart == contractions.norm_prim_cart
             call == EvalCall(coords, orders, center, angmom_comps, alphas,
                              prim_coeffs, norm_prim_cart)
             output == _eval_deriv_contractions(call)
         IN  Return(output, <<call>>)

(***************************************************************************)
(* A caller of construct_array_contraction: it calls with its objects and  *)
(* may pass other points in the next call.                                 *)
(***************************************************************************)
NoCall == [called |-> FALSE, args |-> <<>>, outcome |-> Raise("none", "none")]

Called(args, outcome) == [called |-> TRUE, args |-> args, outcome |-> outcome]

NoTransform == [isNone |-> TRUE, shape |-> <<>>]

\* A coordinate type is a string or a list/tuple of strings.
Str(str) == [isStr |-> TRUE, str |-> str, seq |-> <<>>]

Tuple(seq) == [isStr |-> FALSE, str |-> "", seq |-> seq]

NoBasisCall ==
    [called |-> FALSE, raised |-> "none", check |-> "none", shape |-> <<>>,
     rows |-> <<>>, calls |-> <<>>, invoked |-> <<>>]

Init ==
    /\ np_int \in PlatformInts
    /\ arg_contractions \in ContractionObjects
    /\ arg_coords \in CoordsObjects
    /\ arg_orders \in OrdersObjects
    /\ last = NoCall
    /\ prev = NoCall
    /\ arg_basis = <<>>
    /\ arg_transform = NoTransform
    /\ arg_coord_type = Str("spherical")
    /\ basis_result = NoBasisCall

Call ==
    /\ last' = Called(<<arg_contractions, arg_coords, arg_orders>>,
                      construct_array_contraction(arg_contractions, arg_coords, arg_orders))
    /\ prev' = last
    /\ UNCHANGED <<np_int, arg_contractions, arg_coords, arg_orders,
                   arg_basis, arg_transform, arg_coord_type, basis_result>>

NewCoords ==
    /\ arg_coords' \in CoordsObjects \ {arg_coords}
    /\ UNCHANGED <<np_int, arg_contractions, arg_orders, last, prev,
                   arg_basis, arg_transform, arg_coord_type, basis_result>>

Next == Call \/ NewCoords

Spec == Init /\ [][Next]_vars

(***************************************************************************)
(* BaseOneIndex: the loop over the shells of the basis that the four       *)
(* construct_array_* operations share.  Every shell is passed to           *)
(* construct_array_contraction; its (M, L_cart, N) array is kept as it is  *)
(* ("cartesian") or its component axis is transformed to the 2L+1          *)
(* spherical components ("spherical"), flattened to rows and appended.     *)
(* A row is named by its shell's position, its segmented contraction and   *)
(* its component.  An error of a shell's call ends the loop.               *)
(***************************************************************************)
Row(i, seg, comp, type) == [shell |-> i, seg |-> seg, comp |-> comp, type |-> type]

ShellRows(i, shell, block, type) ==
    LET M == block.shape[1]
        n == IF type = "cartesian" THEN block.shape[2] ELSE L_sph(shell.angmom)
    IN  [k \in 1..(M * n) |-> Row(i, ((k - 1) \div n) + 1, ((k - 1) % n) + 1, type)]

BasisRaise(kind, check, calls) ==
    [raised |-> kind, check |-> check, shape |-> <<>>, rows |-> <<>>, calls |-> calls]

BasisReturn(rows, N, calls) ==
    [raised |-> "none", check |-> "none", shape |-> <<Len(rows), N>>, rows |-> rows,
     calls |-> calls]

RECURSIVE AssembleFrom(_, _, _, _, _, _, _)
AssembleFrom(i, basis, types, coords, orders, rows, calls) ==
    IF i > Len(basis) THEN BasisReturn(rows, Dim(coords, 0), calls)
    ELSE LET block == construct_array_contraction(basis[i], coords, orders)
             called == Append(calls, <<basis[i], coords, orders>>)
         IN  IF block.raised # "none" THEN BasisRaise(block.raised, block.check, called)
             ELSE AssembleFrom(i + 1, basis, types, coords, orders,
                               rows \o ShellRows(i, basis[i], block.output, types[i]),
                               called)

construct_array_cartesian(basis, coords, orders) ==
    AssembleFrom(1, basis, [i \in DOMAIN basis |-> "cartesian"], coords, orders, <<>>, <<>>)

construct_array_spherical(basis, coords, orders) ==
    AssembleFrom(1, basis, [i \in DOMAIN basis |-> "spherical"], coords, orders, <<>>, <<>>)

\* One coordinate type per shell.
construct_array_mix(basis, coord_types, coords, orders) ==
    IF coord_types.isStr THEN BasisRaise("TypeError", "coord_types", <<>>)
    ELSE IF Len(coord_types.seq) # Len(basis)
        THEN BasisRaise("ValueError", "coord_types", <<>>)
    ELSE AssembleFrom(1, basis, coord_types.seq, coords, orders, <<>>, <<>>)

\* transform (K_orbs, K_cont) times the (K_cont, N) array of the contractions.
construct_array_lincomb(basis, transform, coord_type, coords, orders) ==
    LET array == IF coord_type = Str("cartesian")
                     THEN construct_array_cartesian(basis, coords, orders)
                 ELSE IF coord_type = Str("spherical")
                     THEN construct_array_spherical(basis, coords, orders)
                 ELSE construct_array_mix(basis, coord_type, coords, orders)
    IN  IF array.raised # "none" THEN array
        ELSE IF Dim(transform, 1) # array.shape[1]
            THEN BasisRaise("ValueError", "transform", array.calls)
        ELSE BasisReturn([k \in 1..Dim(transform, 0) |-> Row(0, k, 0, "lincomb")],
                         array.shape[2], array.calls)

(***************************************************************************)
(* evaluate_deriv_basis                                                    *)
(***************************************************************************)
Invocation(op, transform, coord_type, coords, orders) ==
    [op |-> op, transform |-> transform, coord_type |-> coord_type,
     coords |-> coords, orders |-> orders]

Invoked(inv, r) ==
    [called |-> TRUE, raised |-> r.raised, check |-> r.check, shape |-> r.shape,
     rows |-> r.rows, calls |-> r.calls, invoked |-> <<inv>>]

\* evaluate_deriv_basis testing coord_type before transform
evaluate_deriv_basis_coord_type_first(basis, points, orders, transform, coord_type) ==
    IF coord_type = Str("cartesian")
    THEN Invoked(Invocation("cartesian", NoTransform, Str("cartesian"), points, orders),
                 construct_array_cartesian(basis, points, orders))
    ELSE IF coord_type = Str("spherical")
    THEN Invoked(Invocation("spherical", NoTransform, Str("spherical"), points, orders),
                 construct_array_spherical(basis, points, orders))
    ELSE IF ~transform.isNone
    THEN Invoked(Invocation("lincomb", transform, coord_type, points, orders),
                 construct_array_lincomb(basis, transform, coord_type, points, orders))
    ELSE Invoked(Invocation("mix", NoTransform, coord_type, points, orders),
                 construct_array_mix(basis, coord_type, points, orders))

\* evaluate_deriv_basis passing the default coord_type to the linear combination
\* and taking the spherical branch for "cartesian"
evaluate_deriv_basis_spherical(basis, points, orders, transform, coord_type) ==
    IF ~transform.isNone
    THEN Invoked(Invocation("lincomb", transform, Str("spherical"), points, orders),
                 construct_array_lincomb(basis, transform, Str("spherical"), points, orders))
    ELSE IF coord_type \in {Str("cartesian"), Str("spherical")}
    THEN Invoked(Invocation("spherical", NoTransform, Str("spherical"), points, orders),
                 construct_array_spherical(basis, points, orders))
    ELSE Invoked(Invocation("mix", NoTransform, coord_type, points, orders),
                 construct_array_mix(basis, coord_type, points, orders))

evaluate_deriv_basis(basis, points, orders, transform, coord_type) ==
    IF ~transform.isNone
    THEN Invoked(Invocation("lincomb", transform, coord_type, points, orders),
                 construct_array_lincomb(basis, transform, coord_type, points, orders))
    ELSE IF coord_type = Str("cartesian")
    THEN Invoked(Invocation("cartesian", NoTransform, Str("cartesian"), points, orders),
                 construct_array_cartesian(basis, points, orders))
    ELSE IF coord_type = Str("spherical")
    THEN Invoked(Invocation("spherical", NoTransform, Str("spherical"), points, orders),
                 construct_array_spherical(basis, points, orders))
    ELSE Invoked(Invocation("mix", NoTransform, coord_type, points, orders),
                 construct_array_mix(basis, coord_type, points, orders))

(***************************************************************************)
(* A caller of evaluate_deriv_basis.                                       *)
(***************************************************************************)
SeqsUpTo(S, n) == UNION {[1..k -> S] : k \in 1..n}

Bases == SeqsUpTo(Shells, MaxShells)

CoordTypes == {Str("cartesian"), Str("spherical")}
                  \cup {Tuple(t) : t \in SeqsUpTo({"cartesian", "spherical"}, MaxShells)}

\* The number of functions of a basis in a coordinate system.
K_cart(basis) == SumSeq([i \in DOMAIN basis |-> Dim(basis[i].coeffs, 1) * L_cart(basis[i].angmom)])

K_sph(basis) == SumSeq([i \in DOMAIN basis |-> Dim(basis[i].coeffs, 1) * L_sph(basis[i].angmom)])

Transform(K_orbs, K_cont) == [isNone |-> FALSE, shape |-> <<K_orbs, K_cont>>]

BasisOrders ==
    {OrdersArray(<<3>>, d, <<0, 0, 0>>) : d \in PlatformInts \cup FloatDtypes}
    \cup {OrdersArray(<<3>>, "int64", <<2 * MaxOrder, 0, 2>>)}

BasisPoints == {Array(<<0, 3>>), Array(<<MaxPoints, 3>>), Array(<<MaxPoints, 2>>)}

InitBasis ==
    /\ np_int \in PlatformInts
    /\ arg_contractions = NotAShell
    /\ arg_coords \in BasisPoints
    /\ arg_orders \in BasisOrders
    /\ last = NoCall
    /\ prev = NoCall
    /\ arg_basis \in Bases
    /\ arg_coord_type \in CoordTypes
    /\ arg_transform \in {NoTransform}
           \cup {Transform(k, kc) : k \in 1..MaxOrbs,
                                    kc \in {K_cart(arg_basis), K_sph(arg_basis)}}
    /\ basis_result = NoBasisCall

CallBasis ==
    /\ basis_result' = evaluate_deriv_basis(arg_basis, arg_coords, arg_orders,
                                            arg_transform, arg_coord_type)
    /\ UNCHANGED <<np_int, arg_contractions, arg_coords, arg_orders, last, prev,
                   arg_basis, arg_transform, arg_coord_type>>

NextBasis == CallBasis

SpecBasis == InitBasis /\ [][NextBasis]_vars

(***************************************************************************)
(* Properties of construct_array_contraction, stated on the last call      *)
(* (last.args are the arguments and last.outcome what it did) and the call *)
(* before it (prev).                                                       *)
(***************************************************************************)
ValidShell(c) == c.isShell

TwoDimThreeColumns(c) == c.isArray /\ Len(c.shape) = 2 /\ c.shape[2] = 3

ThreeElements(o) == o.isArray /\ o.shape = <<3>>

NonNegative(o) == \A i \in DOMAIN o.vals : o.vals[i] >= 0

Integral(o) == \A i \in DOMAIN o.vals : o.vals[i] % 2 = 0

\* The orders the code accepts.
ValidOrders(o) == ThreeElements(o) /\ NonNegative(o) /\ o.dtype = np_int

Succeeded(call) == call.called /\ call.outcome.raised = "none"

Raised(call, kind) == call.called /\ call.outcome.raised = kind

\* C1: with a valid shell and valid orders, the call succeeds for every coords
\* that is a 2-D array with 3 columns (N >= 0 rows) and raises a TypeError for
\* every other coords.
C1_CoordsContract ==
    (last.called /\ ValidShell(last.args[1]) /\ ValidOrders(last.args[3]))
        => IF TwoDimThreeColumns(last.args[2])
           THEN Succeeded(last)
           ELSE Raised(last, "TypeError")

\* A call with no point succeeded and the next, with two columns, raised.
C1_Witness ==
    /\ Succeeded(prev) /\ prev.args[2] = Array(<<0, 3>>)
    /\ Raised(last, "TypeError") /\ last.args[2] = Array(<<MaxPoints, 2>>)
    /\ ValidShell(last.args[1]) /\ ValidOrders(last.args[3])

\* C2: with a valid shell, valid coords and orders of shape (3,), a negative
\* order raises a ValueError, never a TypeError, for integer and floating
\* point dtypes alike.
C2_NegativeIsValueError ==
    (/\ last.called /\ ValidShell(last.args[1]) /\ TwoDimThreeColumns(last.args[2])
     /\ ThreeElements(last.args[3]) /\ ~NonNegative(last.args[3])
     /\ last.args[3].dtype \in IntegralDtypes \cup FloatDtypes)
        => Raised(last, "ValueError")

\* orders = [0, -1, 0] of the platform's integer dtype raised a ValueError.
C2_Witness ==
    /\ Raised(last, "ValueError")
    /\ ValidShell(last.args[1]) /\ TwoDimThreeColumns(last.args[2])
    /\ last.args[3] = OrdersArray(<<3>>, np_int, <<0, -2, 0>>)

\* C3: with a valid shell and valid coords, floating point orders of shape (3,)
\* raise a ValueError even when the three values are integral and non-negative.
C3_FloatRejected ==
    (/\ last.called /\ ValidShell(last.args[1]) /\ TwoDimThreeColumns(last.args[2])
     /\ ThreeElements(last.args[3]) /\ last.args[3].dtype \in FloatDtypes
     /\ NonNegative(last.args[3]) /\ Integral(last.args[3]))
        => Raised(last, "ValueError")

\* orders = [0.0, 0.0, 0.0] raised a ValueError.
C3_Witness ==
    /\ Raised(last, "ValueError")
    /\ ValidShell(last.args[1]) /\ TwoDimThreeColumns(last.args[2])
    /\ last.args[3] = OrdersArray(<<3>>, "float64", <<0, 0, 0>>)

\* The kind of error a negative order is reported with.
NegativeOrderKind ==
    construct_array_contraction(GeneralizedContractionShell(1, 0, 1, 1), Array(<<1, 3>>),
                                OrdersArray(<<3>>, np_int, <<-2, 0, 0>>)).raised

ShapeViolation(call) ==
    \/ ~TwoDimThreeColumns(call.args[2])
    \/ ~ThreeElements(call.args[3])

\* orders of the right shape and sign whose dtype is of the wrong category
DtypeViolationOnly(call) ==
    /\ TwoDimThreeColumns(call.args[2]) /\ ThreeElements(call.args[3])
    /\ NonNegative(call.args[3]) /\ call.args[3].dtype \in FloatDtypes

\* C4 as stated: every type/shape violation (dimensionality, column count,
\* element count, dtype category of orders) is reported with a kind of error
\* other than the kind of a negative order.
C4_Original ==
    (last.called /\ ValidShell(last.args[1]) /\ (ShapeViolation(last) \/ DtypeViolationOnly(last)))
        => last.outcome.raised \notin {"none", NegativeOrderKind}

\* C4 amended: a wrong dimensionality, column count or element count is
\* reported with a kind of error other than the kind of a negative order; a
\* wrong dtype category of orders is reported with the kind of a negative order.
C4_Amended ==
    /\ (last.called /\ ValidShell(last.args[1]) /\ ShapeViolation(last))
           => last.outcome.raised \notin {"none", NegativeOrderKind}
    /\ (last.called /\ ValidShell(last.args[1]) /\ DtypeViolationOnly(last))
           => last.outcome.raised = NegativeOrderKind

\* Malformed coords raised a TypeError after floating point orders raised a
\* ValueError, the kind of a negative order.
C4_Witness ==
    /\ Raised(prev, "ValueError") /\ ValidShell(prev.args[1]) /\ DtypeViolationOnly(prev)
    /\ Raised(last, "TypeError") /\ ValidShell(last.args[1])
    /\ ~TwoDimThreeColumns(last.args[2])

AllValid(call) ==
    /\ ValidShell(call.args[1]) /\ TwoDimThreeColumns(call.args[2])
    /\ ValidOrders(call.args[3])

\* C5: when any of the five validations fails the evaluator is not invoked and
\* no array is returned; the evaluator is only invoked when all five passed.
C5_AllOrNothing ==
    last.called =>
        /\ ~AllValid(last) => /\ last.outcome.calls = <<>>
                              /\ last.outcome.output = NoOutput
                              /\ last.outcome.raised # "none"
        /\ last.outcome.calls # <<>> => AllValid(last)

\* A call that failed the last validation only (the dtype) invoked nothing.
C5_Witness ==
    /\ last.called /\ ValidShell(last.args[1]) /\ TwoDimThreeColumns(last.args[2])
    /\ ThreeElements(last.args[3]) /\ NonNegative(last.args[3])
    /\ last.args[3].dtype # np_int
    /\ last.outcome.calls = <<>> /\ last.outcome.raised = "ValueError"

C9_AnyIntegralDtype ==
    (/\ last.called /\ ValidShell(last.args[1]) /\ TwoDimThreeColumns(last.args[2])
     /\ ThreeElements(last.args[3]) /\ NonNegative(last.args[3])
     /\ last.args[3].dtype \in IntegralDtypes)
        => Succeeded(last)

\* The first validation an input fails, in the order shell type, coords
\* shape, orders shape, negative order, orders dtype.
FirstViolation(call) ==
    IF ~ValidShell(call.args[1]) THEN <<"TypeError", "contractions">>
    ELSE IF ~TwoDimThreeColumns(call.args[2]) THEN <<"TypeError", "coords">>
    ELSE IF ~ThreeElements(call.args[3]) THEN <<"TypeError", "orders_shape">>
    ELSE IF ~NonNegative(call.args[3]) THEN <<"ValueError", "negative">>
    ELSE IF call.args[3].dtype # np_int THEN <<"ValueError", "dtype">>
    ELSE <<"none", "none">>

\* C10: the error raised is the one of the first failing validation in the
\* order shell type, coords shape, orders shape, negative order, orders dtype.
C10_ValidationOrder ==
    last.called => <<last.outcome.raised, last.outcome.check>> = FirstViolation(last)

\* Floating point orders with a negative value raised the negative-order
\* error, after the same orders with malformed coords raised the coords error.
C10_Witness ==
    /\ prev.called /\ ~TwoDimThreeColumns(prev.args[2])
    /\ prev.outcome.check = "coords"
    /\ last.called /\ last.args[3].dtype \in FloatDtypes /\ ~NonNegative(last.args[3])
    /\ ThreeElements(last.args[3])
    /\ last.outcome.check = "negative" /\ last.outcome.raised = "ValueError"

(***************************************************************************)
(* Properties of evaluate_deriv_basis, stated on its last call.            *)
(***************************************************************************)
\* C7: one orchestration operation is invoked per call: the linear combination
\* with the given coord_type when a transform is given, else the Cartesian one
\* for "cartesian", else the spherical one for "spherical", else the mixed one
\* with coord_type; points and orders are forwarded in every branch.
C7_Dispatch ==
    basis_result.called =>
        /\ Len(basis_result.invoked) = 1
        /\ LET inv == basis_result.invoked[1]
           IN  /\ inv.coords = arg_coords
               /\ inv.orders = arg_orders
               /\ ~arg_transform.isNone
                    => /\ inv.op = "lincomb"
                       /\ inv.transform = arg_transform
                       /\ inv.coord_type = arg_coord_type
               /\ (arg_transform.isNone /\ arg_coord_type = Str("cartesian"))
                    => inv.op = "cartesian"
               /\ (arg_transform.isNone /\ arg_coord_type = Str("spherical"))
                    => inv.op = "spherical"
               /\ (arg_transform.isNone /\ ~arg_coord_type.isStr)
                    => inv.op = "mix" /\ inv.coord_type = arg_coord_type

\* A call with a transform and coord_type "cartesian" took the linear combination.
C7_Witness ==
    /\ basis_result.called /\ ~arg_transform.isNone /\ arg_coord_type = Str("cartesian")
    /\ basis_result.invoked[1].op = "lincomb"
    /\ basis_result.raised = "none"

\* The number of Cartesian functions of a shell: M * L_cart.
CartCount(shell) == shell.coeffs.shape[2] * shell.angmom_components_cart.shape[1]

RowsOfShell(rows, i) == {r \in DOMAIN rows : rows[r].shell = i}

\* C8: with valid points and orders and coord_type "cartesian", the result has
\* shape (sum(ci), N) and its rows are the shells' rows in the order of the
\* shells; with a transform of shape (K_orbs, sum(ci)) it has shape (K_orbs, N).
C8_Concatenation ==
    (/\ basis_result.called /\ arg_coord_type = Str("cartesian")
     /\ TwoDimThreeColumns(arg_coords) /\ ValidOrders(arg_orders))
        => LET K == SumSeq([i \in DOMAIN arg_basis |-> CartCount(arg_basis[i])])
               N == arg_coords.shape[1]
               rows == basis_result.rows
           IN  /\ arg_transform.isNone
                    => /\ basis_result.raised = "none"
                       /\ basis_result.shape = <<K, N>>
                       /\ Len(rows) = K
                       /\ \A i \in DOMAIN arg_basis :
                              /\ Cardinality(RowsOfShell(rows, i)) = CartCount(arg_basis[i])
                              /\ basis_result.calls[i] = <<arg_basis[i], arg_coords, arg_orders>>
                       /\ \A r1, r2 \in DOMAIN rows :
                              r1 < r2 => /\ rows[r1].shell <= rows[r2].shell
                                         /\ rows[r1].type = "cartesian"
                                         /\ rows[r1].shell = rows[r2].shell
                                              => <<rows[r1].seg, rows[r1].comp>>
                                                     # <<rows[r2].seg, rows[r2].comp>>
               /\ (~arg_transform.isNone /\ arg_transform.shape[2] = K)
                    => /\ basis_result.raised = "none"
                       /\ basis_result.shape = <<arg_transform.shape[1], N>>

\* A basis of a d shell and a p shell, with and without a transform.
C8_Witness ==
    /\ basis_result.called /\ arg_coord_type = Str("cartesian")
    /\ TwoDimThreeColumns(arg_coords) /\ ValidOrders(arg_orders)
    /\ Len(arg_basis) = 2 /\ arg_basis[1].angmom = 2 /\ arg_basis[2].angmom = 1
    /\ arg_coords.shape[1] = MaxPoints
    /\ basis_result.shape = <<CartCount(arg_basis[1]) + CartCount(arg_basis[2]), MaxPoints>>
    /\ basis_result.rows[1].shell = 1

====
